---- MODULE Spec2Model ----
(***************************************************************************)
(* closure-calculate-chunks: the chunk graph pipeline.                     *)
(*                                                                         *)
(*   DepsFinder.getDependenciesForFile, fromEntryPoints                    *)
(*                                            (src/unnamed/part_004)       *)
(*   normalizeGraph, GraphNode                (src/unnamed/part_010)       *)
(*   commonAncestors, pathsToEntrypoint       (src/unnamed/part_012)       *)
(*   lowestCommonAncestor          (src/lib/lowest-common-ancestor.js)     *)
(*   ChunkGraph.buildFromEntrypoints, toDependencyGraph,                   *)
(*   getClosureCompilerFlags                  (src/unnamed/part_008)       *)
(*                                                                         *)
(* A JavaScript Set or Map keeps insertion order, and the code depends on  *)
(* that order, so a Set is modelled as a sequence without duplicates.      *)
(* A file is a path; parsing and module resolution are abstracted to the   *)
(* resolved lists a file yields: its static imports (`static`), its        *)
(* dynamic imports (`dyn`), whether it parses (`unparsable`) and whether    *)
(* its imports resolve (`unresolved`).                                     *)
(***************************************************************************)
EXTENDS Integers, Sequences, FiniteSets, TLC

\* The file paths of the modelled project, in localeCompare order.
FileOrder == <<"a", "b", "c", "d", "e", "f", "g">>

Files == {FileOrder[i] : i \in 1..Len(FileOrder)}

\* The value JavaScript calls undefined (a missing map entry, the label of a
\* node that setEdge created).
Undefined == "undefined"

\* dijkstra's distance of a node the entrypoint does not reach.
Infinity == 1000

Rank(f) == CHOOSE i \in 1..Len(FileOrder) : FileOrder[i] = f

(***************************************************************************)
(* Insertion-ordered sets                                                  *)
(***************************************************************************)
Range(s) == {s[i] : i \in 1..Len(s)}

Has(s, x) == \E i \in 1..Len(s) : s[i] = x

\* Set.prototype.add
Add(s, x) == IF Has(s, x) THEN s ELSE Append(s, x)

RECURSIVE AddAll(_, _)
AddAll(s, t) == IF t = <<>> THEN s ELSE AddAll(Add(s, Head(t)), Tail(t))

\* new Set(array)
ToSet(t) == AddAll(<<>>, t)

\* Array.prototype.reverse
Reverse(s) == [i \in 1..Len(s) |-> s[Len(s) + 1 - i]]

(***************************************************************************)
(* State                                                                   *)
(***************************************************************************)
VARIABLES
  static,                \* file -> its resolved static imports, in source order
  dyn,                   \* file -> its resolved dynamic imports, in source order
  unparsable,            \* files whose parse throws (or that are .json files)
  unresolved,            \* files with an import that findDeps cannot resolve
  entrypointsIn,         \* the entrypoints argument of buildFromEntrypoints
  manualEntrypointsIn,   \* the manualEntrypoints argument
  fileDepsCache,         \* DepsFinder.#fileDepsCache
  dependenciesToHoist,   \* DepsFinder.#dependenciesToHoist
  graph,                 \* the load-order graph under construction / returned
  graphEntrypoint,       \* the primary entry
  entrypoints,           \* fromEntryPoints: the work queue
  visitedEntryPoints,    \* fromEntryPoints: names already processed
  manualEntrypointsToAdd,\* fromEntryPoints: manual entry points still to attach
  pass,                  \* 1: first build, 2: rebuild with the hoist map
  pc,                    \* position in buildFromEntrypoints / getClosureCompilerFlags
  sourcesToHoist,        \* the map the last normalizeGraph call returned
  lcaLog,                \* the last normalizeGraph call: <<owners, lca>> per group
  closureGraph,          \* toDependencyGraph's result
  sortedChunks,          \* getClosureCompilerFlags: chunks still to emit
  visitedChunks,         \* getClosureCompilerFlags: chunks emitted, in order
  namePrefix,            \* getClosureCompilerFlags: the namePrefix argument
  namingStyle,           \* getClosureCompilerFlags: the namingStyle argument
  chunkNameIndex,        \* outputChunkNaming: the next number to hand out
  outputChunkNames,      \* outputChunkNaming: chunk -> its output name
  usedNames,             \* outputChunkNaming: output names taken
  chunks,                \* getClosureCompilerFlags: chunk strings emitted, in order
  sources,               \* getClosureCompilerFlags: the flat source list
  errors                 \* getClosureCompilerFlags: chunks whose entry is missing

inputVars == <<static, dyn, unparsable, unresolved, entrypointsIn, manualEntrypointsIn>>

finderVars == <<fileDepsCache, dependenciesToHoist>>

buildVars == <<graph, graphEntrypoint, entrypoints, visitedEntryPoints, manualEntrypointsToAdd>>

normVars == <<sourcesToHoist, lcaLog>>

namingVars == <<namePrefix, namingStyle, chunkNameIndex, outputChunkNames, usedNames>>

flagVars == <<closureGraph, sortedChunks, visitedChunks, namingVars, chunks, sources, errors>>

vars == <<inputVars, finderVars, buildVars, normVars, flagVars, pass, pc>>

(***************************************************************************)
(* GraphNode and the graphlib operations the code uses                     *)
(***************************************************************************)
\* new GraphNode(name, deps, childChunks, sources), as fromEntryPoints calls it
GraphNode(name, deps, childChunks, srcs) ==
  [defined |-> TRUE, name |-> name, deps |-> deps, childChunks |-> childChunks,
   sources |-> srcs]

\* graph.node(v) of a node that has no label
NoLabel ==
  [defined |-> FALSE, name |-> Undefined, deps |-> <<>>, childChunks |-> <<>>,
   sources |-> <<>>]

Names == Files \cup {Undefined}

\* new graphlib.Graph({directed: true, compound: false})
NewGraph == [nodes |-> <<>>, label |-> [n \in Names |-> NoLabel], edges |-> <<>>]

\* graph.setNode(v, label)
setNode(g, v, label) ==
  [g EXCEPT !.nodes = Add(g.nodes, v), !.label[v] = label]

hasEdge(g, v, w) == Has(g.edges, <<v, w>>)

\* graph.setEdge(v, w): the endpoints become nodes (without a label) if they
\* are not nodes yet
setEdge(g, v, w) ==
  [g EXCEPT !.nodes = Add(Add(g.nodes, v), w), !.edges = Add(g.edges, <<v, w>>)]

\* graph.inEdges(v).map(edge => edge.v), in insertion order
Parents(g, v) ==
  LET into == SelectSeq(g.edges, LAMBDA e : e[2] = v)
  IN [i \in 1..Len(into) |-> into[i][1]]

\* graph.outEdges(v).map(edge => edge.w), in insertion order
Children(g, v) ==
  LET from == SelectSeq(g.edges, LAMBDA e : e[1] = v)
  IN [i \in 1..Len(from) |-> from[i][2]]

(***************************************************************************)
(* DepsFinder.findDeps and DepsFinder.getDependenciesForFile               *)
(***************************************************************************)
NoEntry == [has |-> FALSE, deps |-> <<>>, childChunks |-> <<>>]

\* A faulty variant of findDeps: the dynamic imports are not collected.
findDepsStaticOnly(filepath) ==
  [has |-> TRUE,
   deps |-> ToSet(<<filepath>> \o static[filepath]),
   childChunks |-> <<>>]

\* findDeps: the file itself, then its static specifiers, resolved; the
\* dynamic specifiers, resolved.
findDeps(filepath) ==
  [has |-> TRUE,
   deps |-> ToSet(<<filepath>> \o static[filepath]),
   childChunks |-> ToSet(dyn[filepath])]

RECURSIVE getDependenciesForFile(_, _, _)
RECURSIVE WalkParsedDeps(_, _, _)

\* A faulty variant of the loop: a walked file is not put in front of the
\* list its own walk returned.
WalkParsedDepsWithoutFile(parsedDeps, i, acc) ==
  IF i > Len(parsedDeps) THEN acc
  ELSE IF parsedDeps[i] \in acc.visitedFiles
    THEN WalkParsedDeps(parsedDeps, i + 1, acc)
    ELSE
      LET dep == parsedDeps[i]
          t == getDependenciesForFile(dep, acc.visitedFiles \cup {dep}, acc.cache)
          transientDepInfo ==
            [has |-> TRUE, deps |-> ToSet(t.deps), childChunks |-> t.childChunks]
      IN WalkParsedDeps(parsedDeps, i + 1,
           [deps |-> t.deps \o acc.deps,
            childChunks |-> AddAll(acc.childChunks, t.childChunks),
            visitedFiles |-> t.visitedFiles,
            cache |-> [t.cache EXCEPT ![dep] = transientDepInfo],
            calls |-> acc.calls + t.calls])

\* A faulty variant of the loop: visitedFiles is passed by value, so the files
\* a recursive call visits are not known to the loop that made the call.
WalkParsedDepsByValue(parsedDeps, i, acc) ==
  IF i > Len(parsedDeps) THEN acc
  ELSE IF parsedDeps[i] \in acc.visitedFiles
    THEN WalkParsedDeps(parsedDeps, i + 1, acc)
    ELSE
      LET dep == parsedDeps[i]
          t == getDependenciesForFile(dep, acc.visitedFiles \cup {dep}, acc.cache)
          transientDeps == <<dep>> \o t.deps
          transientDepInfo ==
            [has |-> TRUE, deps |-> ToSet(transientDeps), childChunks |-> t.childChunks]
      IN WalkParsedDeps(parsedDeps, i + 1,
           [deps |-> transientDeps \o acc.deps,
            childChunks |-> AddAll(acc.childChunks, t.childChunks),
            visitedFiles |-> acc.visitedFiles \cup {dep},
            cache |-> [t.cache EXCEPT ![dep] = transientDepInfo],
            calls |-> acc.calls + t.calls])

\* The for loop of getDependenciesForFile over parsedDeps, from index i.
\* acc is the loop's state: deps, childChunks, and the two objects the
\* recursion shares, visitedFiles and the file cache.
WalkParsedDeps(parsedDeps, i, acc) ==
  IF i > Len(parsedDeps) THEN acc
  ELSE IF parsedDeps[i] \in acc.visitedFiles
    THEN WalkParsedDeps(parsedDeps, i + 1, acc)
    ELSE
      LET dep == parsedDeps[i]
          t == getDependenciesForFile(dep, acc.visitedFiles \cup {dep}, acc.cache)
          transientDeps == <<dep>> \o t.deps
          transientDepInfo ==
            [has |-> TRUE, deps |-> ToSet(transientDeps), childChunks |-> t.childChunks]
      IN WalkParsedDeps(parsedDeps, i + 1,
           [deps |-> transientDeps \o acc.deps,
            childChunks |-> AddAll(acc.childChunks, t.childChunks),
            visitedFiles |-> t.visitedFiles,
            cache |-> [t.cache EXCEPT ![dep] = transientDepInfo],
            calls |-> acc.calls + t.calls])

\* getDependenciesForFile(filepath, visitedFiles) with the cache it reads and
\* writes; returns the GraphNode's deps and childChunks, the two mutated
\* objects, and the number of calls of getDependenciesForFile the walk made,
\* this one included.
getDependenciesForFile(filepath, visitedFiles, cache) ==
  LET cachedDeps == cache[filepath]
      parsed == IF cachedDeps.has THEN cachedDeps
                ELSE IF filepath \in unparsable \cup unresolved THEN NoEntry
                ELSE findDeps(filepath)
      parsedDeps == parsed.deps \o dependenciesToHoist[filepath]
      r == WalkParsedDeps(parsedDeps, 1,
             [deps |-> <<>>, childChunks |-> parsed.childChunks,
              visitedFiles |-> visitedFiles, cache |-> cache, calls |-> 0])
  IN [deps |-> ToSet(r.deps), childChunks |-> ToSet(r.childChunks),
      visitedFiles |-> r.visitedFiles, cache |-> r.cache, calls |-> r.calls + 1]

(***************************************************************************)
(* DepsFinder.fromEntryPoints                                              *)
(***************************************************************************)
\* entrypoints.forEach at the top of fromEntryPoints: a node per entry point,
\* an edge from the first one to every other.
RECURSIVE InitialNodes(_, _, _)
InitialNodes(g, eps, index) ==
  IF index > Len(eps) THEN g
  ELSE LET withNode == setNode(g, eps[index].name,
                               GraphNode(eps[index].name, <<>>, <<>>, <<>>))
       IN InitialNodes(IF index = 1 THEN withNode
                       ELSE setEdge(withNode, eps[1].name, eps[index].name),
                       eps, index + 1)

\* childChunks.forEach(chunkEntryPoint => ...) for the chunk `current`.
\* st = [graph, entrypoints]
RECURSIVE AddChildChunks(_, _, _, _)
AddChildChunks(st, current, childChunks, k) ==
  IF k > Len(childChunks) THEN st
  ELSE
    LET chunkEntryPoint == childChunks[k]
        isNew == ~st.graph.label[chunkEntryPoint].defined
        g1 == IF isNew
              THEN setNode(st.graph, chunkEntryPoint,
                           GraphNode(chunkEntryPoint, <<>>, <<>>, <<chunkEntryPoint>>))
              ELSE st.graph
        q1 == IF isNew
              THEN Append(st.entrypoints,
                          [name |-> chunkEntryPoint, files |-> <<chunkEntryPoint>>])
              ELSE st.entrypoints
        g2 == IF ~hasEdge(g1, chunkEntryPoint, current) /\ ~hasEdge(g1, current, chunkEntryPoint)
              THEN setEdge(g1, current, chunkEntryPoint)
              ELSE g1
    IN AddChildChunks([graph |-> g2, entrypoints |-> q1], current, childChunks, k + 1)

RECURSIVE WalkEntrypointFiles(_, _, _)

\* A faulty variant of the loop over entrypoint.files: the files of a walk
\* are added to the chunk's sources and not to its deps.
WalkEntrypointFilesSourcesOnly(st, entrypoint, i) ==
  IF i > Len(entrypoint.files) THEN st
  ELSE
    LET r == getDependenciesForFile(entrypoint.files[i], {}, st.cache)
        cur == st.graph.label[entrypoint.name]
        merged == [cur EXCEPT !.sources = AddAll(@, r.deps),
                              !.childChunks = AddAll(@, r.childChunks)]
        g1 == [st.graph EXCEPT !.label[entrypoint.name] = merged]
        added == AddChildChunks([graph |-> g1, entrypoints |-> st.entrypoints],
                                entrypoint.name, r.childChunks, 1)
    IN WalkEntrypointFiles([graph |-> added.graph, entrypoints |-> added.entrypoints,
                            cache |-> r.cache], entrypoint, i + 1)

\* for (i ...) over entrypoint.files.  st = [graph, entrypoints, cache]
WalkEntrypointFiles(st, entrypoint, i) ==
  IF i > Len(entrypoint.files) THEN st
  ELSE
    LET r == getDependenciesForFile(entrypoint.files[i], {}, st.cache)
        cur == st.graph.label[entrypoint.name]
        merged == [cur EXCEPT !.sources = AddAll(@, r.deps),
                              !.deps = AddAll(@, r.deps),
                              !.childChunks = AddAll(@, r.childChunks)]
        g1 == [st.graph EXCEPT !.label[entrypoint.name] = merged]
        added == AddChildChunks([graph |-> g1, entrypoints |-> st.entrypoints],
                                entrypoint.name, r.childChunks, 1)
    IN WalkEntrypointFiles([graph |-> added.graph, entrypoints |-> added.entrypoints,
                            cache |-> r.cache], entrypoint, i + 1)

\* A faulty variant of the manual entry point step: the child node is made
\* and queued, the edge from its parent is forgotten.
AttachManualEntrypointWithoutEdge(st) ==
  IF st.entrypoints = <<>> /\ st.manual # <<>>
  THEN LET child == Head(st.manual).child
       IN [graph |-> setNode(st.graph, child.name,
                             GraphNode(child.name, <<>>, <<>>, ToSet(child.files))),
           entrypoints |-> Append(st.entrypoints, child),
           manual |-> Tail(st.manual)]
  ELSE st

\* The manual entry point step at the end of a loop iteration.
\* st = [graph, entrypoints, manual]
AttachManualEntrypoint(st) ==
  IF st.entrypoints = <<>> /\ st.manual # <<>>
  THEN LET parent == Head(st.manual).parent
           child == Head(st.manual).child
           g1 == setNode(st.graph, child.name,
                         GraphNode(child.name, <<>>, <<>>, ToSet(child.files)))
       IN [graph |-> setEdge(g1, parent, child.name),
           entrypoints |-> Append(st.entrypoints, child),
           manual |-> Tail(st.manual)]
  ELSE st

\* One iteration of while (entrypoints.length > 0).
ProcessEntrypoint ==
  /\ pc = "build"
  /\ entrypoints # <<>>
  /\ LET entrypoint == Head(entrypoints)
     IN IF entrypoint.name \in visitedEntryPoints
        THEN /\ entrypoints' = Tail(entrypoints)
             /\ UNCHANGED <<graph, visitedEntryPoints, manualEntrypointsToAdd, fileDepsCache>>
        ELSE LET walked == WalkEntrypointFiles(
                             [graph |-> graph, entrypoints |-> Tail(entrypoints),
                              cache |-> fileDepsCache], entrypoint, 1)
                 attached == AttachManualEntrypoint(
                               [graph |-> walked.graph, entrypoints |-> walked.entrypoints,
                                manual |-> manualEntrypointsToAdd])
             IN /\ visitedEntryPoints' = visitedEntryPoints \cup {entrypoint.name}
                /\ fileDepsCache' = walked.cache
                /\ graph' = attached.graph
                /\ entrypoints' = attached.entrypoints
                /\ manualEntrypointsToAdd' = attached.manual
  /\ UNCHANGED <<inputVars, dependenciesToHoist, graphEntrypoint, normVars, flagVars, pass, pc>>

\* A faulty variant of the final forEach: the sources are left in walk order.
ReverseSourcesSkipped(g) == g

\* graph.nodes().forEach(... node.sources = reversed ...) and the return.
\* A node without a label (setEdge made it) makes node.sources throw.
ReverseSources(g) ==
  [g EXCEPT !.label = [n \in Names |-> [g.label[n] EXCEPT !.sources = Reverse(@)]]]

FinishBuild ==
  /\ pc = "build"
  /\ entrypoints = <<>>
  /\ IF \E i \in 1..Len(graph.nodes) : ~graph.label[graph.nodes[i]].defined
     THEN pc' = "crashed" /\ UNCHANGED graph
     ELSE pc' = "built" /\ graph' = ReverseSources(graph)
  /\ UNCHANGED <<inputVars, finderVars, graphEntrypoint, entrypoints, visitedEntryPoints,
                 manualEntrypointsToAdd, normVars, flagVars, pass>>

(***************************************************************************)
(* commonAncestors and lowestCommonAncestor                                *)
(***************************************************************************)
NoPaths == [has |-> FALSE, paths |-> <<>>]

RECURSIVE pathsToEntrypoint(_, _, _, _)
RECURSIVE PathsThroughParents(_, _, _, _, _, _)

\* The for loop of pathsToEntrypoint over parentNodes, from index i.
\* acc = [paths, cache]
PathsThroughParents(startingNode, g, parentNodes, thisPath, i, acc) ==
  IF i > Len(parentNodes) THEN acc
  ELSE IF Has(thisPath, parentNodes[i])
    THEN PathsThroughParents(startingNode, g, parentNodes, thisPath, i + 1, acc)
    ELSE
      LET r == pathsToEntrypoint(parentNodes[i], g, acc.cache, thisPath)
          extended == [k \in 1..Len(r.paths) |-> <<startingNode>> \o r.paths[k]]
      IN PathsThroughParents(startingNode, g, parentNodes, thisPath, i + 1,
           [paths |-> acc.paths \o extended, cache |-> r.cache])

\* pathsToEntrypoint(startingNode, graph, cache, currentPath).  The cache
\* entry of a node is the array the call fills; the only calls that could
\* read it half filled are for nodes of thisPath, which the guard skips.
pathsToEntrypoint(startingNode, g, cache, currentPath) ==
  IF cache[startingNode].has
  THEN [paths |-> cache[startingNode].paths, cache |-> cache]
  ELSE
    LET parentNodes == Parents(g, startingNode)
        first == IF Len(parentNodes) = 0 THEN <<<<startingNode>>>> ELSE <<>>
        thisPath == Append(currentPath, startingNode)
        r == PathsThroughParents(startingNode, g, parentNodes, thisPath, 1,
               [paths |-> first, cache |-> cache])
    IN [paths |-> r.paths,
        cache |-> [r.cache EXCEPT ![startingNode] = [has |-> TRUE, paths |-> r.paths]]]

\* for (; j < entrypointPathsForNode.length; j++): keep the nodes on path j
RECURSIVE ReduceByPaths(_, _, _)
ReduceByPaths(commonNodes, paths, j) ==
  IF j > Len(paths) THEN commonNodes
  ELSE ReduceByPaths(SelectSeq(commonNodes, LAMBDA validNode : Has(paths[j], validNode)),
                     paths, j + 1)

\* The for loop of commonAncestors over sourceNodes.
\* acc = [set: commonNodes is assigned, commonNodes, cache]
RECURSIVE CommonAncestorsLoop(_, _, _, _)
CommonAncestorsLoop(sourceNodes, g, i, acc) ==
  IF i > Len(sourceNodes) THEN acc
  ELSE
    LET r == pathsToEntrypoint(sourceNodes[i], g, acc.cache, <<>>)
        \* new Set(entrypointPathsForNode[0]); new Set(undefined) is empty
        started == IF acc.set THEN acc.commonNodes
                   ELSE IF Len(r.paths) = 0 THEN <<>> ELSE ToSet(r.paths[1])
        j == IF acc.set THEN 1 ELSE 2
    IN CommonAncestorsLoop(sourceNodes, g, i + 1,
         [set |-> TRUE, commonNodes |-> ReduceByPaths(started, r.paths, j),
          cache |-> r.cache])

commonAncestors(entrypoint, sourceNodes, g) ==
  CommonAncestorsLoop(sourceNodes, g, 1,
    [set |-> FALSE, commonNodes |-> <<>>,
     cache |-> [n \in Names |-> NoPaths]]).commonNodes

\* graphlib.alg.dijkstra(graph, entrypoint, () => 1): breadth-first levels
RECURSIVE DijkstraFrom(_, _, _, _)
DijkstraFrom(g, frontier, dist, d) ==
  LET next == {w \in Range(g.nodes) :
                 dist[w] = Infinity /\ \E v \in frontier : hasEdge(g, v, w)}
  IN IF next = {} THEN dist
     ELSE DijkstraFrom(g, next, [n \in Names |-> IF n \in next THEN d + 1 ELSE dist[n]],
                       d + 1)

dijkstra(g, entrypoint) ==
  DijkstraFrom(g, {entrypoint},
               [n \in Names |-> IF n = entrypoint THEN 0 ELSE Infinity], 0)

\* The comparator of the sort in lowestCommonAncestor: a sorts before b
SortsBefore(a, b, nodeDistanceFromEntrypoint) ==
  IF nodeDistanceFromEntrypoint[a] = nodeDistanceFromEntrypoint[b]
  THEN Rank(a) <= Rank(b)
  ELSE nodeDistanceFromEntrypoint[b] < nodeDistanceFromEntrypoint[a]

\* A faulty variant of lowestCommonAncestor: the sort is ascending, so the
\* common node nearest to the entry point is taken.
lowestCommonAncestorNearest(entrypoint, sourceNodes, g, nodeDistanceFromEntrypoint) ==
  LET commonNodes == Range(commonAncestors(entrypoint, sourceNodes, g))
  IN IF commonNodes = {} THEN Undefined
     ELSE CHOOSE a \in commonNodes :
            \A b \in commonNodes : SortsBefore(b, a, nodeDistanceFromEntrypoint)

\* orderedCommonAncestors[0]: undefined when there is no common node
lowestCommonAncestor(entrypoint, sourceNodes, g, nodeDistanceFromEntrypoint) ==
  LET commonNodes == Range(commonAncestors(entrypoint, sourceNodes, g))
  IN IF commonNodes = {} THEN Undefined
     ELSE CHOOSE a \in commonNodes :
            \A b \in commonNodes : SortsBefore(a, b, nodeDistanceFromEntrypoint)

(***************************************************************************)
(* normalizeGraph                                                          *)
(***************************************************************************)
RECURSIVE ConcatSources(_, _)
ConcatSources(g, i) ==
  IF i > Len(g.nodes) THEN <<>>
  ELSE g.label[g.nodes[i]].sources \o ConcatSources(g, i + 1)

\* getNodesReferencingSource: the keys, in insertion order ...
ReferencedSources(g) == ToSet(ConcatSources(g, 1))

\* ... and the value of a key: the nodes referencing the source
ReferencingNodes(g, source) ==
  SelectSeq(g.nodes, LAMBDA nodeName : Has(g.label[nodeName].sources, source))

\* sourceNodeCombinations: one entry per distinct set of more than one
\* referencing nodes, in insertion order, with the sources of that set
SharedSources(g) ==
  SelectSeq(ReferencedSources(g), LAMBDA source : Len(ReferencingNodes(g, source)) > 1)

RECURSIVE Combinations(_, _, _)
Combinations(g, shared, i) ==
  IF i > Len(shared) THEN <<>>
  ELSE LET nodes == ReferencingNodes(g, shared[i])
           rest == Combinations(g, shared, i + 1)
       IN <<[nodes |-> nodes,
             sourceSet |-> SelectSeq(shared,
                             LAMBDA source : ReferencingNodes(g, source) = nodes)]>>
          \o SelectSeq(rest, LAMBDA c : c.nodes # nodes)

sourceNodeCombinations(g) == Combinations(g, SharedSources(g), 1)

\* A faulty variant of the deletion in normalizeGraph: only the first of the
\* referencing nodes loses the sources.
DeleteFromFirstNode(g, nodes, lca, sourceSet) ==
  [g EXCEPT !.label = [n \in Names |->
     IF Len(nodes) > 0 /\ n = nodes[1] /\ n # lca
     THEN [g.label[n] EXCEPT !.sources = SelectSeq(@, LAMBDA x : ~Has(sourceSet, x))]
     ELSE g.label[n]]]

\* A faulty variant of the deletion in normalizeGraph: the sources are deleted
\* from the deps of the referencing nodes too.
DeleteFromSourcesAndDeps(g, nodes, lca, sourceSet) ==
  [g EXCEPT !.label = [n \in Names |->
     IF Has(nodes, n) /\ n # lca
     THEN [g.label[n] EXCEPT !.sources = SelectSeq(@, LAMBDA x : ~Has(sourceSet, x)),
                             !.deps = SelectSeq(@, LAMBDA x : ~Has(sourceSet, x))]
     ELSE g.label[n]]]

\* sourceNodeCombinations.forEach: hoist each combination to its lowest
\* common ancestor.  acc = [graph, sourcesToHoist, log]
DeleteFromNodes(g, nodes, lca, sourceSet) ==
  [g EXCEPT !.label = [n \in Names |->
     IF Has(nodes, n) /\ n # lca
     THEN [g.label[n] EXCEPT !.sources = SelectSeq(@, LAMBDA x : ~Has(sourceSet, x))]
     ELSE g.label[n]]]

RECURSIVE HoistCombinations(_, _, _, _, _)
HoistCombinations(entrypoint, combos, dist, i, acc) ==
  IF i > Len(combos) THEN acc
  ELSE
    LET sourceInfo == combos[i]
        lca == lowestCommonAncestor(entrypoint, sourceInfo.nodes, acc.graph, dist)
    IN HoistCombinations(entrypoint, combos, dist, i + 1,
         [graph |-> DeleteFromNodes(acc.graph, sourceInfo.nodes, lca, sourceInfo.sourceSet),
          sourcesToHoist |-> [acc.sourcesToHoist EXCEPT ![lca] = AddAll(@, sourceInfo.sourceSet)],
          log |-> Append(acc.log, [nodes |-> sourceInfo.nodes, lca |-> lca])])

NoHoists == [n \in Names |-> <<>>]

\* normalizeGraph(entrypoint, graph): the graph it leaves, the map it returns
normalizeGraph(entrypoint, g) ==
  HoistCombinations(entrypoint, sourceNodeCombinations(g), dijkstra(g, entrypoint), 1,
                    [graph |-> g, sourcesToHoist |-> NoHoists, log |-> <<>>])

(***************************************************************************)
(* ChunkGraph.buildFromEntrypoints                                         *)
(***************************************************************************)
\* dependenciesToHoist.forEach(sources => if (sources.length > 0) ...)
graphNeedsRebuilt(hoists) == \E n \in Names : Len(hoists[n]) > 0

\* normalizeGraph(chunkGraph.entrypoint, chunkGraph.graph), first or second call
Normalize ==
  /\ pc = "built"
  /\ LET r == normalizeGraph(graphEntrypoint, graph)
     IN /\ graph' = r.graph
        /\ sourcesToHoist' = r.sourcesToHoist
        /\ lcaLog' = r.log
        /\ pc' = IF pass = 1 /\ graphNeedsRebuilt(r.sourcesToHoist)
                 THEN "rebuild" ELSE "ready"
  /\ UNCHANGED <<inputVars, finderVars, graphEntrypoint, entrypoints, visitedEntryPoints,
                 manualEntrypointsToAdd, flagVars, pass>>

\* DepsFinder.addDependenciesToHoist
addDependenciesToHoist(current, hoists) ==
  [n \in Names |-> IF Len(hoists[n]) > 0 THEN hoists[n] ELSE current[n]]

\* if (graphNeedsRebuilt): addDependenciesToHoist, then fromEntryPoints again
\* (up to its loop) with the same arguments and the same DepsFinder
Rebuild ==
  /\ pc = "rebuild"
  /\ dependenciesToHoist' = addDependenciesToHoist(dependenciesToHoist, sourcesToHoist)
  /\ graph' = InitialNodes(NewGraph, entrypointsIn, 1)
  /\ entrypoints' = entrypointsIn
  /\ visitedEntryPoints' = {}
  /\ manualEntrypointsToAdd' = manualEntrypointsIn
  /\ pass' = 2
  /\ pc' = "build"
  /\ UNCHANGED <<inputVars, fileDepsCache, graphEntrypoint, normVars, flagVars>>

(***************************************************************************)
(* ChunkGraph.toDependencyGraph                                            *)
(***************************************************************************)
\* sourceNodes.get(source): the last node that lists the source
sourceNodes(g, source) ==
  LET owners == ReferencingNodes(g, source)
  IN IF Len(owners) = 0 THEN Undefined ELSE owners[Len(owners)]

\* parentNodes.get(nodeName)
RECURSIVE DepOwners(_, _, _, _)
DepOwners(g, nodeName, deps, i) ==
  IF i > Len(deps) THEN <<>>
  ELSE LET containingChunk == sourceNodes(g, deps[i])
       IN (IF containingChunk # nodeName THEN <<containingChunk>> ELSE <<>>)
          \o DepOwners(g, nodeName, deps, i + 1)

\* A faulty variant of parentNodes: the dependency on the entry point that
\* every node has 'by definition' is left out.
parentNodesFromDepsOnly(g, entrypoint, nodeName) ==
  ToSet(DepOwners(g, nodeName, g.label[nodeName].deps, 1))

parentNodes(g, entrypoint, nodeName) ==
  ToSet((IF nodeName # entrypoint THEN <<entrypoint>> ELSE <<>>)
        \o DepOwners(g, nodeName, g.label[nodeName].deps, 1))

\* transitiveParents of nodeName: the parents of its parents
transitiveParents(g, entrypoint, nodeName) ==
  UNION {Range(parentNodes(g, entrypoint, p)) :
           p \in Range(parentNodes(g, entrypoint, nodeName))}

\* parentNodes.get(parentNodeName) is undefined for a parent that is no node:
\* a dep that no chunk lists puts undefined among the parents
ProjectionThrows(g, entrypoint) ==
  \E n \in Range(g.nodes) : Has(parentNodes(g, entrypoint, n), Undefined)

\* A faulty variant of the edge loop: every parent gets its edge, also those
\* that are parents of another parent.
RECURSIVE AddParentEdgesUnreduced(_, _, _, _, _)
AddParentEdgesUnreduced(dg, nodeName, parents, transitive, i) ==
  IF i > Len(parents) THEN dg
  ELSE AddParentEdgesUnreduced(setEdge(dg, parents[i], nodeName),
                               nodeName, parents, transitive, i + 1)

RECURSIVE AddParentEdges(_, _, _, _, _)
AddParentEdges(dg, nodeName, parents, transitive, i) ==
  IF i > Len(parents) THEN dg
  ELSE AddParentEdges(IF parents[i] \notin transitive
                      THEN setEdge(dg, parents[i], nodeName) ELSE dg,
                      nodeName, parents, transitive, i + 1)

RECURSIVE AddAllParentEdges(_, _, _, _)
AddAllParentEdges(dg, g, entrypoint, i) ==
  IF i > Len(g.nodes) THEN dg
  ELSE AddAllParentEdges(
         AddParentEdges(dg, g.nodes[i], parentNodes(g, entrypoint, g.nodes[i]),
                        transitiveParents(g, entrypoint, g.nodes[i]), 1),
         g, entrypoint, i + 1)

toDependencyGraph(g, entrypoint) ==
  AddAllParentEdges([g EXCEPT !.edges = <<>>], g, entrypoint, 1)

(***************************************************************************)
(* outputChunkNaming                                                       *)
(***************************************************************************)
NAMING_STYLE == {"entrypoint", "numbered"}

\* the values of the --name-prefix flag explored
NamePrefixes == {"", "out_"}

\* path.basename(chunkName, path.extname(chunkName)) of the paths the files
\* stand for: d and e are files of the same name in two directories, and c
\* is named like the first suffixed name that collision produces
basename == [f \in Files |->
  CASE f = "a" -> "a" [] f = "b" -> "b" [] f = "c" -> "lib1"
    [] f = "d" -> "lib" [] f = "e" -> "lib" [] f = "f" -> "f" [] f = "g" -> "g"]

\* A faulty variant of the collision loop: the name is taken as proposed.
ProposeNameUnchecked(outputChunkName, proposedName, suffix, used) == proposedName

\* for (let suffix = 1; usedNames.has(proposedName); suffix++)
\*   proposedName = outputChunkName + suffix
RECURSIVE ProposeName(_, _, _, _)
ProposeName(outputChunkName, proposedName, suffix, used) ==
  IF proposedName \notin used THEN proposedName
  ELSE ProposeName(outputChunkName, outputChunkName \o ToString(suffix), suffix + 1, used)

\* One call of the function outputChunkNaming returns, on naming state st:
\* the name is appended to st.names
getOutputChunkName(st, chunkName) ==
  IF st.outputChunkNames[chunkName] # Undefined
  THEN [st EXCEPT !.names = Append(@, st.outputChunkNames[chunkName])]
  ELSE IF namingStyle = "numbered"
  THEN IF chunkName = graphEntrypoint
       THEN [st EXCEPT !.outputChunkNames[chunkName] = namePrefix \o "main",
                       !.names = Append(@, namePrefix \o "main")]
       ELSE [st EXCEPT !.outputChunkNames[chunkName] =
                          namePrefix \o ToString(st.chunkNameIndex),
                       !.chunkNameIndex = @ + 1,
                       !.names = Append(@, namePrefix \o ToString(st.chunkNameIndex))]
  ELSE LET outputChunkName == namePrefix \o basename[chunkName]
           proposedName == ProposeName(outputChunkName, outputChunkName, 1, st.usedNames)
       IN [st EXCEPT !.usedNames = @ \cup {proposedName},
                     !.outputChunkNames[chunkName] = proposedName,
                     !.names = Append(@, proposedName)]

\* getOutputChunkName(chunkName) followed by parents.map(getOutputChunkName)
RECURSIVE getOutputChunkNames(_, _, _)
getOutputChunkNames(st, chunkNames, i) ==
  IF i > Len(chunkNames) THEN st
  ELSE getOutputChunkNames(getOutputChunkName(st, chunkNames[i]), chunkNames, i + 1)

(***************************************************************************)
(* ChunkGraph.getClosureCompilerFlags                                      *)
(***************************************************************************)
\* nodes reachable from n along one or more edges
RECURSIVE ReachFrom(_, _)
ReachFrom(g, seen) ==
  LET more == seen \cup {e[2] : e \in {x \in Range(g.edges) : x[1] \in seen}}
  IN IF more = seen THEN seen ELSE ReachFrom(g, more)

Descendants(g, n) == ReachFrom(g, {e[2] : e \in {x \in Range(g.edges) : x[1] = n}})

\* A faulty variant of the cycle test: no cycle is ever found.
HasCycleIgnored(g) == FALSE

\* graphlib.alg.findCycles(g).length > 0
HasCycle(g) == \E n \in Range(g.nodes) : n \in Descendants(g, n)

\* graphlib.alg.topsort: visit every sink, predecessors first
RECURSIVE TopsortVisit(_, _, _)
RECURSIVE TopsortVisitAll(_, _, _, _)
TopsortVisit(g, node, acc) ==
  IF node \in acc.visited THEN acc
  ELSE LET up == TopsortVisitAll(g, Parents(g, node), 1,
                   [visited |-> acc.visited \cup {node}, results |-> acc.results])
       IN [visited |-> up.visited, results |-> Append(up.results, node)]

TopsortVisitAll(g, nodes, i, acc) ==
  IF i > Len(nodes) THEN acc
  ELSE TopsortVisitAll(g, nodes, i + 1, TopsortVisit(g, nodes[i], acc))

topsort(g) ==
  TopsortVisitAll(g, SelectSeq(g.nodes, LAMBDA n : Len(Children(g, n)) = 0), 1,
                  [visited |-> {}, results |-> <<>>]).results

\* toDependencyGraph, findCycles and topsort at the top of getClosureCompilerFlags
StartFlags ==
  /\ pc = "ready"
  /\ IF ProjectionThrows(graph, graphEntrypoint)
     THEN /\ pc' = "crashed"
          /\ UNCHANGED <<closureGraph, sortedChunks, namePrefix, namingStyle>>
     ELSE LET dg == toDependencyGraph(graph, graphEntrypoint)
          IN /\ closureGraph' = dg
             /\ IF HasCycle(dg)
                THEN /\ pc' = "cyclic"
                     /\ UNCHANGED <<sortedChunks, namePrefix, namingStyle>>
                ELSE /\ pc' = "emit"
                     /\ sortedChunks' = topsort(dg)
                     /\ namePrefix' \in NamePrefixes
                     /\ namingStyle' \in NAMING_STYLE
  /\ UNCHANGED <<inputVars, finderVars, buildVars, normVars, visitedChunks,
                 chunkNameIndex, outputChunkNames, usedNames, chunks, sources, errors, pass>>

\* A faulty variant of the parent test: the last chunk of the list passes,
\* whatever its parents.
EmittableLast(i) == i = Len(sortedChunks)

\* A faulty variant of the parent test: only a chunk without parents passes.
EmittableWithoutParents(i) == Parents(closureGraph, sortedChunks[i]) = <<>>

\* the chunks of sortedChunks all of whose parents were emitted
Emittable(i) ==
  \A p \in Range(Parents(closureGraph, sortedChunks[i])) : Has(visitedChunks, p)

\* A faulty variant of the loop body: the chunk string carries the number of
\* the chunk's dependencies instead of the number of its sources.
EmitChunkCountingDeps ==
  /\ pc = "emit"
  /\ sortedChunks # <<>>
  /\ IF \E i \in 1..Len(sortedChunks) : Emittable(i)
     THEN LET i == CHOOSE k \in 1..Len(sortedChunks) :
                     Emittable(k) /\ \A l \in 1..(k - 1) : ~Emittable(l)
              chunkName == sortedChunks[i]
              chunk == closureGraph.label[chunkName]
              parents == Parents(closureGraph, chunkName)
              named == getOutputChunkNames(
                         [chunkNameIndex |-> chunkNameIndex,
                          outputChunkNames |-> outputChunkNames,
                          usedNames |-> usedNames, names |-> <<>>],
                         <<chunkName>> \o parents, 1)
          IN /\ errors' = IF Has(chunk.sources, chunkName) THEN errors
                          ELSE Append(errors, chunkName)
             /\ visitedChunks' = Append(visitedChunks, chunkName)
             /\ chunkNameIndex' = named.chunkNameIndex
             /\ outputChunkNames' = named.outputChunkNames
             /\ usedNames' = named.usedNames
             /\ chunks' = Append(chunks, [name |-> Head(named.names),
                                          count |-> Len(chunk.deps),
                                          parents |-> Tail(named.names)])
             /\ sources' = sources \o chunk.sources
             /\ sortedChunks' = [k \in 1..(Len(sortedChunks) - 1) |->
                                   IF k < i THEN sortedChunks[k] ELSE sortedChunks[k + 1]]
             /\ pc' = pc
     ELSE /\ pc' = "unsortable"
          /\ UNCHANGED <<sortedChunks, visitedChunks, chunkNameIndex, outputChunkNames,
                         usedNames, chunks, sources, errors>>
  /\ UNCHANGED <<inputVars, finderVars, buildVars, normVars, closureGraph,
                 namePrefix, namingStyle, pass>>

\* One iteration of while (sortedChunks.length > 0): emit the first chunk all
\* of whose parents were visited; if there is none, throw 'Unable to sort chunks'
EmitChunk ==
  /\ pc = "emit"
  /\ sortedChunks # <<>>
  /\ IF \E i \in 1..Len(sortedChunks) : Emittable(i)
     THEN LET i == CHOOSE k \in 1..Len(sortedChunks) :
                     Emittable(k) /\ \A l \in 1..(k - 1) : ~Emittable(l)
              chunkName == sortedChunks[i]
              chunk == closureGraph.label[chunkName]
              parents == Parents(closureGraph, chunkName)
              named == getOutputChunkNames(
                         [chunkNameIndex |-> chunkNameIndex,
                          outputChunkNames |-> outputChunkNames,
                          usedNames |-> usedNames, names |-> <<>>],
                         <<chunkName>> \o parents, 1)
          IN /\ errors' = IF Has(chunk.sources, chunkName) THEN errors
                          ELSE Append(errors, chunkName)
             /\ visitedChunks' = Append(visitedChunks, chunkName)
             /\ chunkNameIndex' = named.chunkNameIndex
             /\ outputChunkNames' = named.outputChunkNames
             /\ usedNames' = named.usedNames
             /\ chunks' = Append(chunks, [name |-> Head(named.names),
                                          count |-> Len(chunk.sources),
                                          parents |-> Tail(named.names)])
             /\ sources' = sources \o chunk.sources
             /\ sortedChunks' = [k \in 1..(Len(sortedChunks) - 1) |->
                                   IF k < i THEN sortedChunks[k] ELSE sortedChunks[k + 1]]
             /\ pc' = pc
     ELSE /\ pc' = "unsortable"
          /\ UNCHANGED <<sortedChunks, visitedChunks, chunkNameIndex, outputChunkNames,
                         usedNames, chunks, sources, errors>>
  /\ UNCHANGED <<inputVars, finderVars, buildVars, normVars, closureGraph,
                 namePrefix, namingStyle, pass>>

\* A faulty variant of the end of getClosureCompilerFlags: the recorded errors
\* are ignored and the result is returned.
FinishFlagsIgnoringErrors ==
  /\ pc = "emit"
  /\ sortedChunks = <<>>
  /\ pc' = "done"
  /\ UNCHANGED <<inputVars, finderVars, buildVars, normVars, flagVars, pass>>

\* after the loop: throw 'Invalid chunk definitions' or return {chunk, js}
FinishFlags ==
  /\ pc = "emit"
  /\ sortedChunks = <<>>
  /\ pc' = IF Len(errors) > 0 THEN "invalid" ELSE "done"
  /\ UNCHANGED <<inputVars, finderVars, buildVars, normVars, flagVars, pass>>

(***************************************************************************)
(* Inputs and the specification                                            *)
(***************************************************************************)
\* The state buildFromEntrypoints is in when its first fromEntryPoints call
\* reaches the loop: a new DepsFinder, the initial nodes in the graph.
Start(st, dy, un, ur, eps, man) ==
  /\ static = st
  /\ dyn = dy
  /\ unparsable = un
  /\ unresolved = ur
  /\ entrypointsIn = eps
  /\ manualEntrypointsIn = man
  /\ fileDepsCache = [f \in Names |-> NoEntry]
  /\ dependenciesToHoist = NoHoists
  /\ graph = InitialNodes(NewGraph, eps, 1)
  /\ graphEntrypoint = eps[1].name
  /\ entrypoints = eps
  /\ visitedEntryPoints = {}
  /\ manualEntrypointsToAdd = man
  /\ pass = 1
  /\ pc = "build"
  /\ sourcesToHoist = NoHoists
  /\ lcaLog = <<>>
  /\ closureGraph = NewGraph
  /\ sortedChunks = <<>>
  /\ visitedChunks = <<>>
  /\ namePrefix = ""
  /\ namingStyle = "entrypoint"
  /\ chunkNameIndex = 0
  /\ outputChunkNames = [f \in Names |-> Undefined]
  /\ usedNames = {}
  /\ chunks = <<>>
  /\ sources = <<>>
  /\ errors = <<>>

\* an entry point as the command line makes it: named after its first file
Entry(files) == [name |-> files[1], files |-> files]

\* a manual entry point as the command line makes it from <parent>:<child>
Manual(parent, files) == [parent |-> parent, child |-> Entry(files)]

(***************************************************************************)
(* The projects explored.  A project is a choice of import statements out  *)
(* of a list of candidates, each <<importing file, imported file>>; the    *)
(* imports of a file keep the order of the list.                           *)
(***************************************************************************)
MaxStatic == 4

MaxDynamic == 4

MaxManual == 2

\* the sets of at most k elements of S
RECURSIVE SubsetsUpTo(_, _)
SubsetsUpTo(S, k) ==
  IF k = 0 THEN {{}}
  ELSE LET smaller == SubsetsUpTo(S, k - 1)
       IN smaller \cup {p \cup {x} : p \in smaller, x \in S}

\* the candidates with an index in chosen, in list order
Chosen(candidates, chosen) ==
  LET picked == SelectSeq([i \in 1..Len(candidates) |-> i], LAMBDA i : i \in chosen)
  IN [k \in 1..Len(picked) |-> candidates[picked[k]]]

\* file -> the files it imports, for the chosen candidates
ImportLists(candidates, chosen) ==
  [f \in Files |->
     LET mine == SelectSeq(Chosen(candidates, chosen), LAMBDA e : e[1] = f)
     IN [k \in 1..Len(mine) |-> mine[k][2]]]

\* Projects with one entry point and no manual entry point.
StaticCandidates ==
  << <<"a", "b">>, <<"b", "c">>, <<"e", "c">>, <<"e", "b">>,
     <<"d", "b">>, <<"d", "c">>, <<"c", "b">> >>

DynamicCandidates ==
  << <<"a", "e">>, <<"a", "d">>, <<"d", "c">>, <<"e", "c">>, <<"c", "a">> >>

InitImports ==
  \E st \in SubsetsUpTo(1..Len(StaticCandidates), MaxStatic),
     dy \in SubsetsUpTo(1..Len(DynamicCandidates), MaxDynamic) :
    Start(ImportLists(StaticCandidates, st), ImportLists(DynamicCandidates, dy), {}, {},
          <<Entry(<<"a">>)>>, <<>>)

\* Projects with several entry points, entry points of several files, manual
\* entry points and a file that does not parse.
EntrypointLists ==
  { <<Entry(<<"a">>)>>, <<Entry(<<"a", "b">>)>>, <<Entry(<<"a">>), Entry(<<"d">>)>> }

ManualCandidates ==
  << Manual("a", <<"d">>), Manual("d", <<"e", "c">>), Manual("e", <<"e">>),
     Manual("c", <<"d">>) >>

ManualStaticCandidates == << <<"a", "b">>, <<"d", "b">> >>

ManualDynamicCandidates == << <<"a", "d">>, <<"d", "c">>, <<"d", "a">> >>

InitManual ==
  \E st \in SubsetsUpTo(1..Len(ManualStaticCandidates), MaxStatic),
     dy \in SubsetsUpTo(1..Len(ManualDynamicCandidates), MaxDynamic),
     un \in {{}, {"d"}},
     eps \in EntrypointLists,
     man \in SubsetsUpTo(1..Len(ManualCandidates), MaxManual) :
    Start(ImportLists(ManualStaticCandidates, st), ImportLists(ManualDynamicCandidates, dy),
          un, {}, eps, Chosen(ManualCandidates, man))

\* Projects with a file that does not parse or that has an import findDeps
\* cannot resolve (a module specifier without a file, or a goog.require of a
\* namespace without a mapping), imported from other files or an entry point
\* itself.
BrokenStaticCandidates == << <<"a", "d">>, <<"d", "b">>, <<"a", "b">>, <<"e", "d">> >>

BrokenDynamicCandidates == << <<"a", "e">>, <<"d", "c">> >>

InitBroken ==
  \E st \in SubsetsUpTo(1..Len(BrokenStaticCandidates), MaxStatic),
     dy \in SubsetsUpTo(1..Len(BrokenDynamicCandidates), MaxDynamic),
     broken \in {<<{"d"}, {}>>, <<{}, {"d"}>>},
     eps \in {<<Entry(<<"a">>)>>, <<Entry(<<"a">>), Entry(<<"d">>)>>} :
    Start(ImportLists(BrokenStaticCandidates, st), ImportLists(BrokenDynamicCandidates, dy),
          broken[1], broken[2], eps, <<>>)

\* Projects whose dynamic imports form a cycle that does not pass through
\* the entry point, with chunks loaded from the cycle.
CycleStaticCandidates ==
  << <<"b", "c">>, <<"b", "e">>, <<"c", "b">>, <<"e", "b">>, <<"c", "c">> >>

CycleDynamicCandidates ==
  << <<"a", "d">>, <<"d", "c">>, <<"c", "e">>, <<"e", "d">>, <<"d", "b">> >>

InitCycles ==
  \E st \in SubsetsUpTo(1..Len(CycleStaticCandidates), MaxStatic),
     dy \in SUBSET (1..Len(CycleDynamicCandidates)) :
    Start(ImportLists(CycleStaticCandidates, st), ImportLists(CycleDynamicCandidates, dy),
          {}, {}, <<Entry(<<"a">>)>>, <<>>)

\* Projects with a chain of chunks a => d => c => e => b, or a beginning of
\* it, in which a chunk imports files of chunks further up the chain.
ChainStaticCandidates ==
  << <<"c", "d">>, <<"c", "f">>, <<"e", "f">>, <<"e", "g">>, <<"b", "g">>, <<"b", "d">> >>

ChainDynamicCandidates == << <<"a", "d">>, <<"d", "c">>, <<"c", "e">>, <<"e", "b">> >>

InitChain ==
  \E st \in SUBSET (1..Len(ChainStaticCandidates)),
     k \in 1..Len(ChainDynamicCandidates) :
    Start(ImportLists(ChainStaticCandidates, st), ImportLists(ChainDynamicCandidates, 1..k),
          {}, {}, <<Entry(<<"a">>)>>, <<>>)

Init == InitImports \/ InitManual \/ InitBroken \/ InitCycles \/ InitChain

Next ==
  \/ ProcessEntrypoint
  \/ FinishBuild
  \/ Normalize
  \/ Rebuild
  \/ StartFlags
  \/ EmitChunk
  \/ FinishFlags

Spec == Init /\ [][Next]_vars

(***************************************************************************)
(* Vocabulary of the properties                                            *)
(***************************************************************************)
Chunks(g) == Range(g.nodes)

\* the chunks that have file f in their sources
Owners(g, f) == {n \in Chunks(g) : Has(g.label[n].sources, f)}

\* the files f imports with an import statement the parser sees
StaticImports(f) == IF f \in unparsable \cup unresolved THEN {} ELSE Range(static[f])

RECURSIVE StaticClosure(_)
StaticClosure(S) ==
  LET more == S \cup UNION {StaticImports(f) : f \in S}
  IN IF more = S THEN S ELSE StaticClosure(more)

StaticAcyclic == \A f \in Files : f \notin StaticClosure(StaticImports(f))

\* the entry files of chunk n: those of the (manual) entry points of that
\* name, or the dynamically imported file itself
EntryFiles(n) ==
  LET given == {entrypointsIn[i] : i \in 1..Len(entrypointsIn)}
                 \cup {manualEntrypointsIn[i].child : i \in 1..Len(manualEntrypointsIn)}
      named == {e \in given : e.name = n}
  IN IF named = {} THEN {n} ELSE UNION {Range(e.files) : e \in named}

Reach(g, entrypoint) == {entrypoint} \cup Descendants(g, entrypoint)

AllReachable(g, entrypoint) == Chunks(g) \subseteq Reach(g, entrypoint)

ManualParents == {manualEntrypointsIn[i].parent : i \in 1..Len(manualEntrypointsIn)}

\* the nodes reachable from the nodes seen without passing through node L
RECURSIVE ReachAvoiding(_, _, _)
ReachAvoiding(g, seen, L) ==
  LET more == seen \cup {e[2] : e \in {x \in Range(g.edges) : x[1] \in seen /\ x[2] # L}}
  IN IF more = seen THEN seen ELSE ReachAvoiding(g, more, L)

\* L is on every path from the entry point to owner
OnEveryPath(g, entrypoint, L, owner) ==
  L = entrypoint \/ L = owner \/ owner \notin ReachAvoiding(g, {entrypoint}, L)

CommonOnPaths(g, entrypoint, owners) ==
  {L \in Chunks(g) : \A o \in Range(owners) : OnEveryPath(g, entrypoint, L, o)}

\* every group of the last normalisation pass went to a deepest node that is
\* on every path to every owner
DeepestCommon(g, entrypoint, log) ==
  \A i \in 1..Len(log) :
    LET common == CommonOnPaths(g, entrypoint, log[i].nodes)
        dist == dijkstra(g, entrypoint)
    IN /\ log[i].lca \in common
       /\ \A c \in common : dist[c] <= dist[log[i].lca]

Normalised == pc \in {"rebuild", "ready"}

Projected == pc \in {"cyclic", "emit", "unsortable", "invalid", "done"}

NameLast(g, n) ==
  LET s == g.label[n].sources IN Len(s) > 0 /\ s[Len(s)] = n

\* a project without manual entry points, all of whose files parse
Plain == manualEntrypointsIn = <<>> /\ unparsable = {} /\ unresolved = {}

\* g is before every occurrence of f in the list s
Precedes(s, g, f) ==
  \A j \in 1..Len(s) : s[j] = f => \E i \in 1..(j - 1) : s[i] = g

(***************************************************************************)
(* Properties                                                              *)
(***************************************************************************)
\* C1: after buildFromEntrypoints returns, no source path is in the sources
\* of two different chunk nodes of the load-order graph.
C1_NoSourceInTwoChunks ==
  pc = "ready" => \A f \in Files : Cardinality(Owners(graph, f)) <= 1

\* a rebuild took place and left a hoisted file with one owner
C1_Witness ==
  /\ pc = "ready" /\ pass = 2
  /\ \E n \in Files : \E k \in 1..Len(dependenciesToHoist[n]) :
       Cardinality(Owners(graph, dependenciesToHoist[n][k])) = 1

\* C2: after buildFromEntrypoints returns, every file statically reachable
\* from the entry files of a chunk is in the sources of exactly one chunk
\* (stated for the projects without manual entry points whose files all parse).
C2_EveryNeededFileOwnedOnce ==
  (pc = "ready" /\ Plain) =>
    \A n \in Chunks(graph) : \A f \in StaticClosure(EntryFiles(n)) :
      Cardinality(Owners(graph, f)) = 1

\* C3: after build and projection, each file that a source of chunk n
\* statically imports is owned by n or by an ancestor of n in G_D
\* (stated for the projects without manual entry points whose files all parse).
C3_ImportsOwnedByAncestors ==
  (pc = "done" /\ Plain) =>
    \A n \in Chunks(graph) : \A f \in Range(graph.label[n].sources) :
      \A imported \in StaticImports(f) :
        \E m \in Owners(graph, imported) : m = n \/ n \in Descendants(closureGraph, m)

\* C4: in the flat source list, when the static import relation is acyclic,
\* every file comes after the files it statically imports
\* (stated for the projects without manual entry points whose files all parse).
C4_DependenciesBeforeDependents ==
  (pc = "done" /\ Plain /\ StaticAcyclic) =>
    \A f \in Range(sources) : \A imported \in StaticImports(f) :
      Has(sources, imported) /\ Precedes(sources, imported, f)

C9_Stated ==
  (pc = "built" /\ ManualParents \subseteq Chunks(graph))
    => AllReachable(graph, graphEntrypoint)

\* C9, amended: the same, provided every manual parent is the primary entry
\* or reachable from it.
C9_AllReachable ==
  (pc = "built" /\ ManualParents \subseteq Reach(graph, graphEntrypoint))
    => AllReachable(graph, graphEntrypoint)

\* a manual entry point was attached below a chunk that a dynamic import found
C9_Witness ==
  /\ pc = "built"
  /\ ManualParents \subseteq Reach(graph, graphEntrypoint)
  /\ \E i \in 1..Len(manualEntrypointsIn) :
       /\ manualEntrypointsIn[i].parent # graphEntrypoint
       /\ manualEntrypointsIn[i].child.name \in Chunks(graph)
       /\ \A f \in Files : ~Has(dyn[f], manualEntrypointsIn[i].child.name)

\* C10: when the build finishes, every manual entry point has a node for its
\* child, an edge from its parent to the child, and the child's files walked.
C10_ManualEntrypointsAttached ==
  pc = "built" =>
    \A i \in 1..Len(manualEntrypointsIn) :
      LET parent == manualEntrypointsIn[i].parent
          child == manualEntrypointsIn[i].child
      IN /\ child.name \in Chunks(graph)
         /\ hasEdge(graph, parent, child.name)
         /\ \A f \in Range(child.files) \ unparsable : Has(graph.label[child.name].deps, f)

\* C11: getClosureCompilerFlags returns a chunk/js result only when the chunk
\* dependency graph has no directed cycle; when the graph has one, the call
\* fails with the circular-reference error and no chunk and no source is emitted.
C11_ResultOnlyWhenAcyclic ==
  LET cyclic == \E n \in Chunks(closureGraph) : n \in Descendants(closureGraph, n)
  IN /\ pc \in {"emit", "unsortable", "invalid", "done"} => ~cyclic
     /\ (Projected /\ cyclic) => pc = "cyclic" /\ chunks = <<>> /\ sources = <<>>

\* getClosureCompilerFlags threw the circular-reference error on a projected
\* graph with a cycle through two chunks or more
C11_Witness ==
  /\ pc = "cyclic"
  /\ \E n \in Chunks(closureGraph) :
       \E m \in Descendants(closureGraph, n) \ {n} : n \in Descendants(closureGraph, m)

\* C12: a chunk whose name is absent from its own sources gets a diagnostic
\* recorded and is emitted all the same, the emitter goes on to emit every
\* remaining chunk, and the run then ends with the 'Invalid chunk definitions'
\* error instead of a result; a run with no such chunk ends with a result.
C12_MissingEntrypointReported ==
  /\ pc \in {"emit", "unsortable", "invalid", "done"} =>
       /\ Len(chunks) = Len(visitedChunks)
       /\ Range(errors) \subseteq Range(visitedChunks)
       /\ \A i \in 1..Len(visitedChunks) :
            Has(errors, visitedChunks[i]) <=>
              ~Has(closureGraph.label[visitedChunks[i]].sources, visitedChunks[i])
  /\ pc = "invalid" => errors # <<>> /\ Range(visitedChunks) = Chunks(closureGraph)
  /\ pc = "done" => errors = <<>>
  /\ errors # <<>> => pc \in {"emit", "invalid"}

\* the run ended with the error after a chunk that lacks its own name was
\* emitted and other chunks were emitted after it
C12_Witness ==
  /\ pc = "invalid"
  /\ \E i \in 1..(Len(visitedChunks) - 1) : Has(errors, visitedChunks[i])

\* the walk read file f: as a file of an entry point or as an import
Walked(f) ==
  \/ fileDepsCache[f].has
  \/ \E n \in visitedEntryPoints : f \in EntryFiles(n)

\* C13: when a walked file has a static module specifier that cannot be
\* resolved, or a goog.require / goog.requireType of a namespace without a
\* mapping, the build fails: no chunk graph is returned and nothing is emitted.
C13_UnresolvedImportIsFatal ==
  (\E f \in unresolved : Walked(f)) =>
    pc \notin {"built", "rebuild", "ready", "cyclic", "emit", "unsortable", "invalid", "done"}

\* the file cache of a new DepsFinder
NewCache == [f \in Names |-> NoEntry]

RECURSIVE EmittedSources(_)
EmittedSources(i) ==
  IF i = 0 THEN <<>>
  ELSE EmittedSources(i - 1) \o closureGraph.label[visitedChunks[i]].sources

\* the sum of the source counts of the first i chunk strings
RECURSIVE SumOfCounts(_)
SumOfCounts(i) == IF i = 0 THEN 0 ELSE SumOfCounts(i - 1) + chunks[i].count

\* C15: the js list is the concatenation of the emitted chunks' sources in
\* emission order, and the source counts of the chunk strings sum to its length.
C15_SourcesAreConcatenation ==
  pc \in {"emit", "unsortable", "invalid", "done"} =>
    /\ sources = EmittedSources(Len(visitedChunks))
    /\ SumOfCounts(Len(chunks)) = Len(sources)

\* a result of three chunks or more was returned, one of them of several
\* sources and one whose sources differ in number from its dependencies
C15_Witness ==
  /\ pc = "done" /\ Len(chunks) >= 3
  /\ \E i \in 1..Len(chunks) :
       chunks[i].count # Len(closureGraph.label[visitedChunks[i]].deps)
  /\ \E i \in 1..Len(chunks) : chunks[i].count >= 2

\* C16: with either naming style distinct chunks get distinct output names,
\* a chunk keeps the name it was given, and every parent reference in a chunk
\* string is the name under which that parent was emitted.
C16_OutputNamesDistinctAndStable ==
  pc \in {"emit", "unsortable", "invalid", "done"} =>
    /\ \A m, n \in Chunks(closureGraph) :
         (m # n /\ outputChunkNames[m] # Undefined) => outputChunkNames[m] # outputChunkNames[n]
    /\ \A i, j \in 1..Len(chunks) : i # j => chunks[i].name # chunks[j].name
    /\ \A i \in 1..Len(chunks) :
         LET parents == Parents(closureGraph, visitedChunks[i])
         IN /\ chunks[i].name = outputChunkNames[visitedChunks[i]]
            /\ Len(chunks[i].parents) = Len(parents)
            /\ \A k \in 1..Len(parents) :
                 /\ chunks[i].parents[k] = outputChunkNames[parents[k]]
                 /\ \E j \in 1..Len(chunks) :
                      visitedChunks[j] = parents[k] /\ chunks[j].name = chunks[i].parents[k]

\* a result was returned in which a chunk string names a parent whose output
\* name needed a suffix because of a collision
C16_Witness ==
  /\ pc = "done" /\ namingStyle = "entrypoint"
  /\ \E i \in 1..Len(chunks) :
       \E p \in Range(Parents(closureGraph, visitedChunks[i])) :
         /\ outputChunkNames[p] # namePrefix \o basename[p]
         /\ Has(chunks[i].parents, outputChunkNames[p])

\* C17: getDependenciesForFile returns the same set of deps and the same
\* child chunks for a file whether the file cache is empty or holds what the
\* earlier walks of the build left in it.
C17_MemoisationTransparent ==
  (Plain /\ StaticAcyclic /\ pass = 1 /\ pc \in {"build", "built"}) =>
    \A F \in Files :
      LET cached == getDependenciesForFile(F, {}, fileDepsCache)
          fresh == getDependenciesForFile(F, {}, NewCache)
      IN /\ Range(cached.deps) = Range(fresh.deps)
         /\ Range(cached.childChunks) = Range(fresh.childChunks)

\* C18: every source the second normalizeGraph call lists under a node is in
\* the sources of that node in the graph buildFromEntrypoints returns.
C18_SecondPassHoistsAreFinal ==
  (Plain /\ StaticAcyclic /\ pc = "ready" /\ pass = 2) =>
    \A n \in Names :
      \A f \in Range(sourcesToHoist[n]) :
        n \in Chunks(graph) /\ Has(graph.label[n].sources, f)

\* C19: with no manual entry points the load-order graph fromEntryPoints
\* returns has no directed cycle, self-loops included.
C19_LoadGraphAcyclic ==
  (Plain /\ pc = "built") => \A n \in Chunks(graph) : n \notin Descendants(graph, n)

\* C20: for every group of owning chunks a normalizeGraph call handles,
\* lowestCommonAncestor returns a node of the graph, never undefined.
C20_LowestCommonAncestorDefined ==
  Plain => \A i \in 1..Len(lcaLog) :
             lcaLog[i].lca # Undefined /\ lcaLog[i].lca \in Chunks(graph)

\* the files f imports dynamically with an import() the parser sees
DynamicImports(f) == IF f \in unparsable \cup unresolved THEN {} ELSE Range(dyn[f])

\* the files statically reachable from F, F included
StaticallyReachable(F) == StaticClosure({F})

\* the walk of F on a new DepsFinder returns exactly the files statically
\* reachable from F and exactly their dynamic import targets
WalksClosure(F) ==
  LET r == getDependenciesForFile(F, {}, NewCache)
  IN /\ Range(r.deps) = StaticallyReachable(F)
     /\ Cardinality(Range(r.deps)) = Len(r.deps)
     /\ Range(r.childChunks) = UNION {DynamicImports(f) : f \in StaticallyReachable(F)}
     /\ Cardinality(Range(r.childChunks)) = Len(r.childChunks)

\* C21 as stated: from an empty cache and an empty hoist map, the walk of any
\* file F returns as deps the files statically reachable from F, F included,
\* each once, and as childChunks the dynamic import targets of those files.
C21_Stated ==
  (pc = "built" /\ pass = 1) => \A F \in Files : WalksClosure(F)

\* C21, amended: that holds for every file F that parses and whose imports
\* resolve; the walk of any other file returns no deps, not even F, and no
\* child chunks.
C21_WalkIsStaticClosure ==
  (pc = "built" /\ pass = 1) =>
    \A F \in Files :
      IF F \in unparsable \cup unresolved
      THEN /\ getDependenciesForFile(F, {}, NewCache).deps = <<>>
           /\ getDependenciesForFile(F, {}, NewCache).childChunks = <<>>
      ELSE WalksClosure(F)

\* a file whose walk returns three files or more and a child chunk that one
\* of its imports, not the file itself, imports dynamically
C21_Witness ==
  /\ pc = "built" /\ pass = 1
  /\ \E F \in Files \ (unparsable \cup unresolved) :
       LET r == getDependenciesForFile(F, {}, NewCache)
       IN /\ Len(r.deps) >= 3
          /\ \E c \in Range(r.childChunks) : c \notin DynamicImports(F)

\* the nodes without parents
Roots(g) == {n \in Chunks(g) : Len(Parents(g, n)) = 0}

\* the nodes reached from the nodes seen by going back along edges, without
\* passing through node v
RECURSIVE BackReachAvoiding(_, _, _)
BackReachAvoiding(g, seen, v) ==
  LET more == seen \cup {e[1] : e \in {x \in Range(g.edges) : x[2] \in seen /\ x[1] # v}}
  IN IF more = seen THEN seen ELSE BackReachAvoiding(g, more, v)

\* v is on every simple path from n back along edges to a node without parents
OnEveryPathBack(g, v, n) ==
  v = n \/ Roots(g) \cap BackReachAvoiding(g, {n}, v) = {}

\* the nodes on every such path from every node of N
OnEveryPathBackFromAll(g, N) ==
  {v \in Chunks(g) : \A n \in N : OnEveryPathBack(g, v, n)}

\* some path leads from n back along edges to a node without parents
HasPathBack(g, n) == Roots(g) \cap BackReachAvoiding(g, {n}, Undefined) # {}

\* C22: on the graph fromEntryPoints returns, commonAncestors of any two nodes
\* that have a path back to a node without parents is the set of nodes on
\* every such simple path from either of them, in whichever order the two
\* nodes are given.
C22_CommonAncestorsAreOnEveryPath ==
  (Plain /\ pc = "built") =>
    \A x, y \in {n \in Chunks(graph) : HasPathBack(graph, n)} :
      /\ Range(commonAncestors(graphEntrypoint, <<x, y>>, graph))
           = OnEveryPathBackFromAll(graph, {x, y})
      /\ Range(commonAncestors(graphEntrypoint, <<x, y>>, graph))
           = Range(commonAncestors(graphEntrypoint, <<y, x>>, graph))

\* edge q -> n of g is redundant: q is an ancestor of another parent of n
RedundantParent(g, q, n) ==
  \E p \in Range(Parents(g, n)) \ {q} : p \in Descendants(g, q)

\* C23 as stated: the projected dependency graph has no edge q -> n such that
\* q is also an ancestor of n through another parent of n.
C23_Stated ==
  Projected => \A e \in Range(closureGraph.edges) : ~RedundantParent(closureGraph, e[1], e[2])

\* C23, amended: the projected dependency graph has no edge q -> n such that
\* q is also a parent of another parent of n.
C23_NoParentOfParent ==
  Projected =>
    \A e \in Range(closureGraph.edges) :
      \A p \in Range(Parents(closureGraph, e[2])) \ {e[1]} : ~hasEdge(closureGraph, e[1], p)

\* a result was returned for a graph in which a chunk has a file of a chunk
\* other than the entry point among its dependencies and yet no edge from it
C23_Witness ==
  /\ pc = "done"
  /\ \E n \in Chunks(graph) :
       \E q \in Range(parentNodes(graph, graphEntrypoint, n)) \ {graphEntrypoint} :
         ~hasEdge(closureGraph, q, n)

\* g has no directed cycle, self-loops included
Acyclic(g) == \A n \in Chunks(g) : n \notin Descendants(g, n)

\* C24 as stated: when the load-order graph has no directed cycle, the
\* projected dependency graph has none either and getClosureCompilerFlags does
\* not fail with the circular-reference error.
C24_Stated ==
  (Projected /\ Acyclic(graph)) => Acyclic(closureGraph) /\ pc # "cyclic"

\* C24, amended: the same, provided every chunk of the load-order graph is
\* reachable from the primary entry.
C24_AcyclicLoadGraphProjectsAcyclic ==
  (Projected /\ Acyclic(graph) /\ AllReachable(graph, graphEntrypoint)) =>
    Acyclic(closureGraph) /\ pc # "cyclic"

\* a result of four chunks or more was returned for an acyclic load-order
\* graph in which a chunk has two parents
C24_Witness ==
  /\ pc = "done" /\ Acyclic(graph) /\ AllReachable(graph, graphEntrypoint)
  /\ Len(chunks) >= 4
  /\ \E n \in Chunks(graph) : Len(Parents(graph, n)) >= 2

\* C25: the step of fromEntryPoints that attaches a manual entry point whose
\* child is a chunk walked before leaves that chunk's sources, deps and child
\* chunks in its node.
C25_AttachKeepsNodeData ==
  [][(/\ pc = "build"
      /\ manualEntrypointsToAdd # <<>>
      /\ manualEntrypointsToAdd' = Tail(manualEntrypointsToAdd)
      /\ Head(manualEntrypointsToAdd).child.name \in visitedEntryPoints)
     => LET c == Head(manualEntrypointsToAdd).child.name
        IN /\ Range(graph.label[c].sources) \subseteq Range(graph'.label[c].sources)
           /\ Range(graph.label[c].deps) \subseteq Range(graph'.label[c].deps)
           /\ Range(graph.label[c].childChunks) \subseteq Range(graph'.label[c].childChunks)]_vars

\* fromEntryPoints has returned: every later stage of the build and of
\* getClosureCompilerFlags
Returned == pc \in {"built", "rebuild", "ready"} \/ Projected

\* C26 as stated: at every stage after fromEntryPoints returns every chunk
\* node's sources is a subset of its deps.
C26_Stated ==
  Returned =>
    \A n \in Chunks(graph) : Range(graph.label[n].sources) \subseteq Range(graph.label[n].deps)

\* C26, amended: every source of a chunk node is one of its deps or one of the
\* chunk's own entry files.
C26_SourcesAreDepsOrEntryFiles ==
  Returned =>
    \A n \in Chunks(graph) :
      Range(graph.label[n].sources) \subseteq Range(graph.label[n].deps) \cup EntryFiles(n)

\* after normalisation: a chunk that has a source that is none of its deps,
\* beside a chunk that lost some of its deps from its sources
C26_Witness ==
  /\ pc = "ready"
  /\ \E n \in Chunks(graph) :
       ~(Range(graph.label[n].sources) \subseteq Range(graph.label[n].deps))
  /\ \E n \in Chunks(graph) :
       /\ graph.label[n].sources # <<>>
       /\ ~(Range(graph.label[n].deps) \subseteq Range(graph.label[n].sources))

\* the static imports of f other than f itself
ImportsOfOthers(f) == StaticImports(f) \ {f}

\* the files reached from S along static imports of other files, S included
RECURSIVE ClosureOfOthers(_)
ClosureOfOthers(S) ==
  LET more == S \cup UNION {ImportsOfOthers(f) : f \in S}
  IN IF more = S THEN S ELSE ClosureOfOthers(more)

\* some file reachable from F is on a cycle of static imports, or imports itself
OnImportCycle(F) ==
  \E f \in StaticClosure({F}) : f \in StaticClosure(StaticImports(f))

\* C27: getDependenciesForFile terminates on every static import graph, with
\* cycles and self-imports: the walk of F on a new DepsFinder makes one call
\* for F and one more call for each file reachable from F through imports of
\* other files, and no call more; a file that imports itself costs no call
\* and is in the result once.
C27_WalkTerminates ==
  (pc = "built" /\ pass = 1) =>
    \A F \in Files :
      LET r == getDependenciesForFile(F, {}, NewCache)
      IN IF F \in unparsable \cup unresolved
         THEN r.calls = 1
         ELSE /\ r.calls = Cardinality(ClosureOfOthers({F})) + 1
              /\ Len(r.deps) = Cardinality(ClosureOfOthers({F}))

\* the walk of a file that imports itself and is on a cycle of two other
\* files has returned
C27_Witness ==
  /\ pc = "built" /\ pass = 1
  /\ \E F \in Files \ (unparsable \cup unresolved) :
       /\ F \in StaticImports(F)
       /\ \E f \in ImportsOfOthers(F) : F \in StaticClosure(ImportsOfOthers(f))
       /\ F \in Range(graph.label[F].deps)
       /\ getDependenciesForFile(F, {}, NewCache).calls >= 3

\* C28: whenever the cycle check passes, the emission loop terminates having
\* emitted every chunk of the dependency graph exactly once, and 'Unable to
\* sort chunks' is never raised: while the loop runs every chunk is either
\* emitted or still in sortedChunks, never both and never twice, and some
\* chunk of a non-empty sortedChunks has all its parents emitted, so every
\* iteration shortens sortedChunks; after the loop every chunk is emitted.
C28_EmissionTerminates ==
  /\ pc # "unsortable"
  /\ pc \in {"emit", "invalid", "done"} =>
       /\ Len(visitedChunks) + Len(sortedChunks) = Len(closureGraph.nodes)
       /\ Range(visitedChunks) \cup Range(sortedChunks) = Range(closureGraph.nodes)
       /\ Len(chunks) = Len(visitedChunks)
       /\ sortedChunks # <<>> => \E i \in 1..Len(sortedChunks) : Emittable(i)
  /\ pc \in {"invalid", "done"} => sortedChunks = <<>>

\* the loop has ended after four iterations or more, one of them for a chunk
\* with two parents
C28_Witness ==
  /\ pc \in {"invalid", "done"}
  /\ Len(visitedChunks) >= 4
  /\ \E n \in Range(visitedChunks) : Len(Parents(closureGraph, n)) >= 2

\* normalizeGraph has just returned
JustNormalised == pc \in {"rebuild", "ready"}

\* C29: normalizeGraph run a second time on the graph it has just normalised
\* returns an empty hoist map and changes no chunk's sources.
C29_NormalizeTwiceIsNoOp ==
  JustNormalised =>
    LET again == normalizeGraph(graphEntrypoint, graph)
    IN /\ again.sourcesToHoist = NoHoists
       /\ \A n \in Names : again.graph.label[n].sources = graph.label[n].sources

\* the first run hoisted sources of two combinations or more and took them
\* from a chunk that keeps other sources; the second run finds nothing
C29_Witness ==
  /\ JustNormalised
  /\ Len(lcaLog) >= 2
  /\ graphNeedsRebuilt(sourcesToHoist)
  /\ \E n \in Chunks(graph) :
       /\ graph.label[n].sources # <<>>
       /\ ~(Range(graph.label[n].deps) \subseteq Range(graph.label[n].sources))
  /\ normalizeGraph(graphEntrypoint, graph).sourcesToHoist = NoHoists

\* sequence s with some of its elements deleted gives sequence t
IsAfterDeletions(s, t) == t = SelectSeq(s, LAMBDA x : Has(t, x))

\* C30: a call of normalizeGraph leaves the node set, the edge set and every
\* node's deps and childChunks as they were, and the sources of a node after
\* the call are its sources before the call with some paths deleted.
C30_NormalizeOnlyDeletesSources ==
  [][(pc = "built" /\ pc' \in {"rebuild", "ready"}) =>
       /\ graph'.nodes = graph.nodes
       /\ graph'.edges = graph.edges
       /\ \A n \in Names :
            /\ graph'.label[n].defined = graph.label[n].defined
            /\ graph'.label[n].deps = graph.label[n].deps
            /\ graph'.label[n].childChunks = graph.label[n].childChunks
            /\ IsAfterDeletions(graph.label[n].sources, graph'.label[n].sources)]_vars

\* a call of normalizeGraph on a graph of three chunks or more has deleted
\* sources of two chunks and left the deps of those chunks
C30_Witness ==
  /\ JustNormalised
  /\ Len(graph.nodes) >= 3 /\ Len(graph.edges) >= 2
  /\ Cardinality({n \in Chunks(graph) :
        \E f \in Range(graph.label[n].deps) :
          /\ f \notin Range(graph.label[n].sources)
          /\ \E i \in 1..Len(lcaLog) : Has(lcaLog[i].nodes, n)}) >= 2

====
